---- MODULE Spec2Model ----
(***************************************************************************)
(* Person re-identification evaluation: pairwise distances, k-reciprocal   *)
(* re-ranking with Jaccard fusion, and CMC protocol selection              *)
(* (src/reid/evaluators.py).                                               *)
(*                                                                         *)
(* Tensors are sequences of rows; indices are 1-based here where the       *)
(* source is 0-based.  Float values are fixed-point integers with SCALE    *)
(* units per 1.0, plus the IEEE value NaN (0/0), which every operation     *)
(* propagates as torch does.                                               *)
(***************************************************************************)
EXTENDS Integers, Sequences, FiniteSets, TLC

\* ------------------------------------------------------------------ bounds
\* largest number of rows of feat in a direct call of k_re_ranking
MaxItems == 3
\* largest length of a query list or of a gallery list
MaxList == 2

\* ------------------------------------------------------- float arithmetic
\* fixed-point resolution of a tensor element: 1.0 is SCALE units
SCALE == 1000
\* IEEE not-a-number
NaN == -1000000000

IsNaN(a) == a = NaN

Min2(a, b) == IF a <= b THEN a ELSE b
Max2(a, b) == IF a >= b THEN a ELSE b

FAdd(a, b) == IF IsNaN(a) \/ IsNaN(b) THEN NaN ELSE a + b
FSub(a, b) == IF IsNaN(a) \/ IsNaN(b) THEN NaN ELSE a - b
FMul(a, b) == IF IsNaN(a) \/ IsNaN(b) THEN NaN ELSE (a * b) \div SCALE
\* k * a for an integer literal k
FTimes(k, a) == IF IsNaN(a) THEN NaN ELSE k * a
\* a / b; 0/0 is NaN.  The divisors of the source are sums and maxima of
\* non-negative values, so x/0 with x # 0 does not arise.
FDiv(a, b) ==
    IF IsNaN(a) \/ IsNaN(b) THEN NaN
    ELSE IF b = 0 THEN NaN
    ELSE (a * SCALE) \div b
\* torch.min of two elements: NaN wins
FMin(a, b) == IF IsNaN(a) \/ IsNaN(b) THEN NaN ELSE Min2(a, b)
\* torch.max of two elements: NaN wins
FMax(a, b) == IF IsNaN(a) \/ IsNaN(b) THEN NaN ELSE Max2(a, b)
\* a < b as torch.sort orders: NaN is greater than every number
FLess(a, b) == IF IsNaN(a) THEN FALSE ELSE IF IsNaN(b) THEN TRUE ELSE a < b

RECURSIVE ISqrtBin(_, _, _)
\* largest r in lo..hi with r*r <= n
ISqrtBin(n, lo, hi) ==
    IF lo >= hi THEN lo
    ELSE LET mid == (lo + hi + 1) \div 2
         IN IF mid * mid <= n THEN ISqrtBin(n, mid, hi) ELSE ISqrtBin(n, lo, mid - 1)
\* square root of a fixed-point value
FSqrt(a) == IF IsNaN(a) THEN NaN ELSE ISqrtBin(a * SCALE, 0, 46000)

RECURSIVE ExpTerms(_, _, _, _)
\* alternating Taylor series of exp(-x): t is the k-th term x^k / k!
ExpTerms(x, t, k, acc) ==
    IF t = 0 THEN acc
    ELSE LET nt == (t * x) \div (SCALE * (k + 1))
         IN ExpTerms(x, nt, k + 1, IF k % 2 = 0 THEN acc + t ELSE acc - t)
\* torch.exp(-x) for x >= 0
FExpNeg(x) == IF IsNaN(x) THEN NaN ELSE ExpTerms(x, SCALE, 0, 0)

RECURSIVE FSum(_)
FSum(s) == IF s = <<>> THEN 0 ELSE FAdd(s[1], FSum(Tail(s)))

RECURSIVE FMaxSeq(_)
FMaxSeq(s) == IF Len(s) = 1 THEN s[1] ELSE FMax(s[1], FMaxSeq(Tail(s)))

\* ------------------------------------------------------- tensor helpers
Rows(M) == Len(M)
Cols(M) == IF Len(M) = 0 THEN 0 ELSE Len(M[1])
Shape(M) == <<Rows(M), Cols(M)>>
Dot(x, y) == FSum([d \in 1..Len(x) |-> FMul(x[d], y[d])])
SqNorm(x) == Dot(x, x)

\* Python slice s[:n], n of either sign
Slice(s, n) ==
    LET e == IF n >= 0 THEN Min2(n, Len(s)) ELSE Max2(Len(s) + n, 0)
    IN SubSeq(s, 1, e)

\* the elements of s
Range(s) == {s[p] : p \in 1..Len(s)}

\* sorted sequence of a finite set of integers
SetToSeq(S) ==
    [k \in 1..Cardinality(S) |-> CHOOSE x \in S : Cardinality({y \in S : y < x}) = k - 1]

RECURSIVE Flatten(_)
Flatten(ss) == IF ss = <<>> THEN <<>> ELSE ss[1] \o Flatten(Tail(ss))

\* Python 3 round(n / 2): halves round to the even neighbour
PyRoundHalf(n) ==
    LET q == n \div 2
    IN IF n % 2 = 0 THEN q ELSE IF q % 2 = 0 THEN q ELSE q + 1

\* ------------------------------------------------------- k_re_ranking
\* torch.cdist(feat, feat, p=2)
Cdist(feat) ==
    [i \in 1..Len(feat) |-> [j \in 1..Len(feat) |->
        FSqrt(FSum([d \in 1..Len(feat[i]) |->
            LET df == FSub(feat[i][d], feat[j][d]) IN FMul(df, df)]))]]

\* the orders torch.sort (stable=False) may give to equal keys: by ascending
\* or by descending index
TieBreaks == {"asc", "desc"}

\* indices of torch.sort(row, descending=False)
ArgSort(row, tie) ==
    LET n == Len(row)
        Before(a, b) == \/ FLess(row[a], row[b])
                        \/ /\ ~FLess(row[b], row[a])
                           /\ IF tie = "asc" THEN a < b ELSE a > b
    IN [k \in 1..n |-> CHOOSE j \in 1..n : Cardinality({l \in 1..n : Before(l, j)}) = k - 1]

InitialRank(dist, tie) == [i \in 1..Len(dist) |-> ArgSort(dist[i], tie)]

\* original_dist / torch.max(original_dist, dim=1, keepdim=True).values
RowNormalize(dist) ==
    [i \in 1..Len(dist) |-> [j \in 1..Len(dist[i]) |-> FDiv(dist[i][j], FMaxSeq(dist[i]))]]

\* torch.nonzero(backward == i)[:, 1]: for each row of backward, in row order,
\* the column at which i stands
MatchColumns(backward, i) ==
    Flatten([p \in 1..Len(backward) |->
        SelectSeq([c \in 1..Len(backward[p]) |-> c], LAMBDA c : backward[p][c] = i)])

\* forward[fi] where forward = rank[i, :width], backward = rank[forward, :width]
\* and fi = nonzero(backward == i)[:, 1]
ReciprocalIndex(rank, i, width) ==
    LET forward == Slice(rank[i], width)
        backward == [p \in 1..Len(forward) |-> Slice(rank[forward[p]], width)]
        fi == MatchColumns(backward, i)
    IN [q \in 1..Len(fi) |-> forward[fi[q]]]

\* k_reciprocal_index of row i
KReciprocalIndex(rank, i, k1) == ReciprocalIndex(rank, i, k1 + 1)

\* candidate_k_reciprocal_index of a candidate
CandidateReciprocalIndex(rank, candidate, k1) ==
    ReciprocalIndex(rank, candidate, PyRoundHalf(k1 + 1))

\* intersect.size(0) > 2 / 3 * candidate_k_reciprocal_index.size(0)
CandidateAccepted(R, cand) ==
    3 * Cardinality(Range(R) \cap Range(cand)) > 2 * Len(cand)

\* torch.unique of k_reciprocal_expansion_index after the candidate loop
ExpansionIndex(rank, i, k1) ==
    LET R == KReciprocalIndex(rank, i, k1)
        added == Flatten([j \in 1..Len(R) |->
                    LET cand == CandidateReciprocalIndex(rank, R[j], k1)
                    IN IF CandidateAccepted(R, cand) THEN cand ELSE <<>>])
    IN SetToSeq(Range(R \o added))

\* row i of V after the loop body: weight / torch.sum(weight) on the expansion
\* columns, 0 elsewhere
ExpansionRow(dist_norm, rank, i, k1) ==
    LET E == ExpansionIndex(rank, i, k1)
        weight == [p \in 1..Len(E) |-> FExpNeg(dist_norm[i][E[p]])]
        total == FSum(weight)
    IN [c \in 1..Len(dist_norm[i]) |->
          IF c \in Range(E)
          THEN FDiv(FExpNeg(dist_norm[i][c]), total)
          ELSE 0]

\* V after the k-reciprocal loop
ExpansionLoop(dist, rank, k1) ==
    LET dn == RowNormalize(dist)
    IN [i \in 1..Len(dist) |-> ExpansionRow(dn, rank, i, k1)]

\* the local query expansion without its k2 != 1 test
LocalQueryExpansionAlways(V, rank, k2) ==
    [i \in 1..Len(V) |->
        LET nb == Slice(rank[i], k2)
        IN [c \in 1..Len(V[i]) |->
              FDiv(FSum([p \in 1..Len(nb) |-> V[nb[p]][c]]), Len(nb) * SCALE)]]

\* local query expansion: V_qe = mean(V[initial_rank[:, :k2], :], dim=1)
LocalQueryExpansion(V, rank, k2) ==
    IF k2 # 1
    THEN [i \in 1..Len(V) |->
            LET nb == Slice(rank[i], k2)
            IN [c \in 1..Len(V[i]) |->
                  FDiv(FSum([p \in 1..Len(nb) |-> V[nb[p]][c]]), Len(nb) * SCALE)]]
    ELSE V

\* invIndex[c]: the rows with V[:, c] != 0
InvIndex(V, gallery_num) ==
    [c \in 1..gallery_num |-> SelectSeq([r \in 1..Len(V) |-> r], LAMBDA r : V[r][c] # 0)]

\* indNonZero of row i
IndNonZero(V, i) == SelectSeq([c \in 1..Len(V[i]) |-> c], LAMBDA c : V[i][c] # 0)

RECURSIVE TempMin(_, _, _, _, _)
\* temp_min after the loop over indNonZero: for each column of nz, the rows of
\* its inverted list gain min(V[i, col], V[row, col])
TempMin(V, inv, i, nz, acc) ==
    IF nz = <<>> THEN acc
    ELSE LET col == Head(nz)
             rows == Range(inv[col])
         IN TempMin(V, inv, i, Tail(nz),
                [r \in 1..Len(acc) |->
                    IF r \in rows THEN FAdd(acc[r], FMin(V[i][col], V[r][col])) ELSE acc[r]])

\* jaccard_dist[i, :] = 1 - temp_min / (2 - temp_min)
JaccardDist(V, gallery_num) ==
    LET inv == InvIndex(V, gallery_num)
    IN [i \in 1..Len(V) |->
          LET tm == TempMin(V, inv, i, IndNonZero(V, i), [r \in 1..gallery_num |-> 0])
          IN [r \in 1..gallery_num |->
                FSub(SCALE, FDiv(tm[r], FSub(2 * SCALE, tm[r])))]]

\* final_dist = jaccard_dist * (1 - lambda_value) + original_dist * lambda_value
Fuse(jaccard, dist, lam) ==
    [i \in 1..Len(dist) |-> [j \in 1..Len(dist[i]) |->
        FAdd(FMul(jaccard[i][j], FSub(SCALE, lam)), FMul(dist[i][j], lam))]]

\* k_re_ranking from the Jaccard loop to the return
KReRankingFuse(dist, rank, Vl, Vq, jac, lam) ==
    [original_dist |-> dist, initial_rank |-> rank, V_loop |-> Vl, V |-> Vq,
     jaccard_dist |-> jac, final_dist |-> Fuse(jac, dist, lam)]

\* k_re_ranking from the inverted index on
KReRankingJaccard(dist, rank, Vl, Vq, lam) ==
    KReRankingFuse(dist, rank, Vl, Vq, JaccardDist(Vq, Cols(dist)), lam)

\* k_re_ranking from the local query expansion on
KReRankingSmooth(dist, rank, Vl, kk2, lam) ==
    KReRankingJaccard(dist, rank, Vl, LocalQueryExpansion(Vl, rank, kk2), lam)

\* k_re_ranking from the k-reciprocal loop on
KReRankingExpand(dist, rank, kk1, kk2, lam) ==
    KReRankingSmooth(dist, rank, ExpansionLoop(dist, rank, kk1), kk2, lam)

\* k_re_ranking from torch.sort on
KReRankingSort(dist, kk1, kk2, lam, tie) ==
    KReRankingExpand(dist, InitialRank(dist, tie), kk1, kk2, lam)

\* the whole computation of k_re_ranking for one order of equal keys: the
\* locals at the return
KReRankingLocals(f, kk1, kk2, lam, tie) == KReRankingSort(Cdist(f), kk1, kk2, lam, tie)

\* the steps k_re_ranking performs, in order
KReRankingSteps == <<"cdist", "sort", "expansion", "query_expansion", "inverted_index",
                     "jaccard", "fuse">>

\* ------------------------------------------------------- extract_features
\* the data loaders of the model: batches of <<fname, output, pid>>, output
\* being what extract_cnn_feature gives for the image
Loaders ==
    { << << <<1, <<1000, 0>>, 1>>, <<2, <<0, 2000>>, 2>> >> >>,
      << << <<1, <<0, 0>>, 1>> >>, << <<2, <<1000, 1000>>, 2>> >> >> }

\* d[k] = v on an OrderedDict kept as a sequence of <<key, value>>
DictSet(d, k, v) ==
    IF \E p \in 1..Len(d) : d[p][1] = k
    THEN [p \in 1..Len(d) |-> IF d[p][1] = k THEN <<k, v>> ELSE d[p]]
    ELSE Append(d, <<k, v>>)

DictGet(d, k) == (CHOOSE p \in Range(d) : p[1] = k)[2]

\* list(d.values())
DictValues(d) == [p \in 1..Len(d) |-> d[p][2]]

RECURSIVE ExtractFrom(_, _)
ExtractFrom(samples, acc) ==
    IF samples = <<>> THEN acc
    ELSE ExtractFrom(Tail(samples), DictSet(acc, Head(samples)[1], Head(samples)[2]))

\* the features dictionary of extract_features
ExtractFeatures(data_loader) == ExtractFrom(Flatten(data_loader), <<>>)

\* ------------------------------------------------------- pairwise_distance
\* an argument that may be None
NoneArg == [none |-> TRUE, items |-> <<>>]
ListArg(s) == [none |-> FALSE, items |-> s]

\* the <<fname, pid, cam>> tuples query and gallery lists are made of
ItemPool == { <<1, 1, 1>>, <<2, 2, 2>> }
Lists == UNION { [1..n -> ItemPool] : n \in 1..MaxList }
ListArgs == {NoneArg} \cup { ListArg(s) : s \in Lists }

\* metric: None, or a DistanceMetric with this algorithm
Metrics == {"None", "euclidean", "cosine"}

\* metric.transform(x) of the built-in algorithms
MetricTransform(x) == x

Transformed(x, metric) == IF metric # "None" THEN MetricTransform(x) ELSE x

\* Euclidean mode, query is None and gallery is None
EuclideanSelf(x) ==
    [i \in 1..Len(x) |-> [j \in 1..Len(x) |->
        FSub(FTimes(2, SqNorm(x[i])), FTimes(2, Dot(x[i], x[j])))]]

\* Euclidean mode, query and gallery given
EuclideanPair(x, y) ==
    [i \in 1..Len(x) |-> [j \in 1..Len(y) |->
        FAdd(FAdd(SqNorm(x[i]), SqNorm(y[j])), FTimes(-2, Dot(x[i], y[j])))]]

\* x.div(x.norm(dim=1, keepdim=True))
Normalized(x) ==
    [i \in 1..Len(x) |-> [d \in 1..Len(x[i]) |-> FDiv(x[i][d], FSqrt(SqNorm(x[i])))]]

\* cosine mode: 1 - mm(x_normalized, y_normalized.t())
CosinePair(x, y) ==
    LET xn == Normalized(x)
        yn == Normalized(y)
    IN [i \in 1..Len(x) |-> [j \in 1..Len(y) |-> FSub(SCALE, Dot(xn[i], yn[j]))]]

FeaturesOf(features, list) ==
    [p \in 1..Len(list.items) |-> DictGet(features, list.items[p][1])]

\* pairwise_distance: the matrix, or the exception iterating over None raises
PairwiseDistance(features, q, g, m) ==
    LET euclid == m = "None" \/ m = "euclidean"
    IN IF q.none /\ g.none
       THEN LET x == Transformed(DictValues(features), m)
            IN [exc |-> "none",
                dist |-> IF euclid THEN EuclideanSelf(x) ELSE CosinePair(x, x)]
       ELSE IF q.none \/ g.none
       THEN [exc |-> "TypeError", dist |-> <<>>]
       ELSE LET x == Transformed(FeaturesOf(features, q), m)
                y == Transformed(FeaturesOf(features, g), m)
            IN [exc |-> "none",
                dist |-> IF euclid THEN EuclideanPair(x, y) ELSE CosinePair(x, y)]

\* ------------------------------------------------------- evaluate_all
\* a CMC flag combination
Flags(sep, single, first) ==
    [separate_camera_set |-> sep, single_gallery_shot |-> single, first_match_break |-> first]

\* how many match rates a CMC sequence of the model holds
TopK == 10
\* cmc_topk
CmcTopk == <<1, 5, 10>>

\* the evaluation_metrics collaborator is outside src: its results are drawn
\* from these worlds
Worlds == {1, 2}

\* cmc(distmat, ids, cams, **params): a sequence of cumulative match rates,
\* one per rank, that differs from flag combination to flag combination
Cmc(distmat, world, params) ==
    LET top1 == 100 * world
                + (IF params.separate_camera_set THEN 50 ELSE 0)
                + (IF params.single_gallery_shot THEN 200 ELSE 0)
                + (IF params.first_match_break THEN 400 ELSE 0)
    IN [r \in 1..TopK |-> Min2(SCALE, top1 + 10 * (r - 1) * Rows(distmat))]

\* cmc_configs with the market1501 entry given the flags of 'allshots'
CmcConfigsSameFlags(dataset_name) ==
    << <<"allshots", Flags(FALSE, FALSE, FALSE)>> >>
    \o (IF dataset_name = "market1501"
        THEN << <<"market1501", Flags(FALSE, FALSE, FALSE)>> >>
        ELSE << <<"dukemtmc", Flags(FALSE, TRUE, FALSE)>> >>)

\* cmc_configs as a sequence of <<name, params>> in insertion order
CmcConfigs(dataset_name) ==
    << <<"allshots", Flags(FALSE, FALSE, FALSE)>> >>
    \o (IF dataset_name = "market1501"
        THEN << <<"market1501", Flags(FALSE, FALSE, TRUE)>> >>
        ELSE << <<"dukemtmc", Flags(FALSE, TRUE, FALSE)>> >>)

\* cmc_scores: one cmc call per configuration
CmcScores(distmat, world, dataset_name) ==
    LET cfg == CmcConfigs(dataset_name)
    IN [p \in 1..Len(cfg) |-> <<cfg[p][1], Cmc(distmat, world, cfg[p][2])>>]

HasKey(d, k) == \E p \in 1..Len(d) : d[p][1] = k

\* evaluate_all: the steps performed, the scores, the printed top-k lines, and
\* the returned top-1 or the exception
EvaluateAllResult(distmat, dataset_name, q, g, world) ==
    IF q.none \/ g.none
    THEN [steps |-> <<>>, scores |-> <<>>, printed |-> <<>>,
          exc |-> "AssertionError", ret |-> 0]
    ELSE LET scores == CmcScores(distmat, world, dataset_name)
             steps == <<"mean_ap">> \o [p \in 1..Len(scores) |-> "cmc"]
         IN IF HasKey(scores, dataset_name)
            THEN [steps |-> steps, scores |-> scores,
                  printed |-> [p \in 1..Len(CmcTopk) |->
                                 <<CmcTopk[p], DictGet(scores, dataset_name)[CmcTopk[p]]>>],
                  exc |-> "none", ret |-> DictGet(scores, dataset_name)[1]]
            ELSE [steps |-> steps, scores |-> scores, printed |-> <<>>,
                  exc |-> "KeyError", ret |-> 0]

\* ------------------------------------------------------- state machine
VARIABLES
    pc,            \* "idle", the function about to run, "returned" or "raised"
    caller,        \* who called k_re_ranking: "direct" or "evaluate"
    log,           \* the computation steps performed so far, in order
    exc,           \* the exception that ended the call, or "none"
    features, query, gallery, dataset, metric, re_ranking, distmat,   \* Evaluator.evaluate
    feat, k1, k2, lambda_value,                                      \* k_re_ranking arguments
    original_dist, initial_rank, V_loop, V, jaccard_dist, final_dist, \* k_re_ranking locals
    krr_ret,       \* the matrix k_re_ranking returned
    ea_distmat,    \* the matrix handed to evaluate_all
    cmc_scores, printed, ret,                                         \* evaluate_all
    script,        \* the training script that runs, or "none"
    args,          \* its command line arguments
    checkpoint,    \* the checkpoint given by --resume
    resumed_after, \* the epoch after whose training that checkpoint was written
    start_epoch, best_top1, epoch,                                    \* main's locals
    trained,       \* the epochs handed to trainer.train, in order
    saved,         \* the save_checkpoint calls, in order
    calls,         \* the Evaluator.evaluate calls of the script, in order
    loaded,        \* the checkpoint file loaded for the final test
    main_pc        \* position in main

evalVars == <<features, query, gallery, dataset, metric, re_ranking, distmat>>
argVars == <<feat, k1, k2, lambda_value>>
localVars == <<original_dist, initial_rank, V_loop, V, jaccard_dist, final_dist, krr_ret>>
allVars == <<ea_distmat, cmc_scores, printed, ret>>
mainVars == <<script, args, checkpoint, resumed_after, start_epoch, best_top1, epoch,
              trained, saved, calls, loaded, main_pc>>
vars == <<pc, caller, log, exc, evalVars, argVars, localVars, allVars, mainVars>>

\* dataset names given to evaluate
DatasetNames == {"market1501", "dukemtmc", "cuhk03", "allshots"}

\* arguments of the direct calls of k_re_ranking
FeatVals == { <<0>>, <<1000>>, <<3000>> }
\* five rows, two of them identical
WideFeat == << <<0>>, <<0>>, <<1000>>, <<2000>>, <<4000>> >>
Feats == UNION { [1..n -> FeatVals] : n \in 1..MaxItems } \cup {WideFeat}
K1s == {-1, 0, 1, 3, 20}
K2s == {0, 1, 2, 6}
Lambdas == {-500, 0, 300, 1000, 1500}

\* defaults of k_re_ranking's signature
DefaultK1 == 20
DefaultK2 == 6
DefaultLambda == 300

\* no script runs: the values of main's arguments and of the --resume checkpoint
NoArgs == [evaluate |-> FALSE, resume |-> FALSE, epochs |-> 0, start_save |-> 0,
           dataset |-> "none"]
NoCheckpoint == [epoch |-> 0, best_top1 |-> 0]

Init ==
    /\ pc = "idle" /\ caller = "none" /\ log = <<>> /\ exc = "none"
    /\ features = <<>> /\ query = NoneArg /\ gallery = NoneArg
    /\ dataset = "none" /\ metric = "None" /\ re_ranking = FALSE /\ distmat = <<>>
    /\ feat = <<>> /\ k1 = DefaultK1 /\ k2 = DefaultK2 /\ lambda_value = DefaultLambda
    /\ original_dist = <<>> /\ initial_rank = <<>> /\ V_loop = <<>> /\ V = <<>>
    /\ jaccard_dist = <<>> /\ final_dist = <<>> /\ krr_ret = <<>>
    /\ ea_distmat = <<>> /\ cmc_scores = <<>> /\ printed = <<>> /\ ret = 0
    /\ script = "none" /\ args = NoArgs /\ checkpoint = NoCheckpoint
    /\ resumed_after = -1 /\ start_epoch = 0 /\ best_top1 = 0 /\ epoch = 0
    /\ trained = <<>> /\ saved = <<>> /\ calls = <<>> /\ loaded = "none"
    /\ main_pc = "none"

\* a caller invokes k_re_ranking(feat, k1, k2, lambda_value)
KReRankingCall ==
    /\ pc = "idle"
    /\ \E f \in Feats, a \in K1s, b \in K2s, l \in Lambdas :
         /\ feat' = f /\ k1' = a /\ k2' = b /\ lambda_value' = l
    /\ caller' = "direct"
    /\ pc' = "k_re_ranking"
    /\ UNCHANGED <<log, exc, evalVars, localVars, allVars, mainVars>>

\* the body of k_re_ranking, to its return
KReRanking ==
    /\ pc = "k_re_ranking"
    /\ \E tie \in TieBreaks :
         \E r \in {KReRankingLocals(feat, k1, k2, lambda_value, tie)} :
            /\ original_dist' = r.original_dist
            /\ initial_rank' = r.initial_rank
            /\ V_loop' = r.V_loop
            /\ V' = r.V
            /\ jaccard_dist' = r.jaccard_dist
            /\ final_dist' = r.final_dist
            /\ krr_ret' = r.final_dist
            /\ ea_distmat' = IF caller = "evaluate" THEN r.final_dist ELSE ea_distmat
    /\ log' = log \o KReRankingSteps
    /\ pc' = IF caller = "evaluate" THEN "evaluate_all" ELSE "returned"
    /\ UNCHANGED <<caller, exc, evalVars, argVars, cmc_scores, printed, ret, mainVars>>

\* Evaluator.evaluate is called: extract_features
Evaluate ==
    /\ pc = "idle"
    /\ \E loader \in Loaders : features' = ExtractFeatures(loader)
    /\ \E q \in ListArgs, g \in ListArgs : query' = q /\ gallery' = g
    /\ \E d \in DatasetNames : dataset' = d
    /\ \E m \in Metrics : metric' = m
    /\ \E rr \in BOOLEAN : re_ranking' = rr
    /\ caller' = "evaluate"
    /\ pc' = "pairwise_distance"
    /\ UNCHANGED <<log, exc, distmat, argVars, localVars, allVars, mainVars>>

\* evaluate calls pairwise_distance and goes on to k_re_ranking(distmat) or to
\* evaluate_all(distmat, ...)
EvaluateDistance ==
    /\ pc = "pairwise_distance"
    /\ \E r \in {PairwiseDistance(features, query, gallery, metric)} :
          /\ exc' = r.exc
          /\ distmat' = r.dist
          /\ pc' = IF r.exc # "none" THEN "raised"
                   ELSE IF re_ranking THEN "k_re_ranking" ELSE "evaluate_all"
          /\ feat' = IF r.exc = "none" /\ re_ranking THEN r.dist ELSE feat
          /\ ea_distmat' = IF r.exc = "none" /\ ~re_ranking THEN r.dist ELSE ea_distmat
          /\ log' = IF r.exc = "none" THEN Append(log, "pairwise_distance") ELSE log
    /\ UNCHANGED <<caller, features, query, gallery, dataset, metric, re_ranking,
                   k1, k2, lambda_value, localVars, cmc_scores, printed, ret, mainVars>>

\* the body of evaluate_all, to its return or its exception
EvaluateAll ==
    /\ pc = "evaluate_all"
    /\ \E world \in Worlds :
         \E r \in {EvaluateAllResult(ea_distmat, dataset, query, gallery, world)} :
            /\ log' = log \o r.steps
            /\ cmc_scores' = r.scores
            /\ printed' = r.printed
            /\ exc' = r.exc
            /\ ret' = r.ret
            /\ pc' = IF r.exc = "none" THEN "returned" ELSE "raised"
    /\ UNCHANGED <<caller, evalVars, argVars, localVars, ea_distmat, mainVars>>

\* ------------------------------------------------------- training scripts
\* examples/softmax_loss.py and tricks/triplet_loss.py
Scripts == {"softmax_loss", "triplet_loss"}

\* largest --epochs and --start_save tried
MaxEpochs == 3

\* --dataset
ScriptDatasets == {"cuhk03", "market1501"}

\* top-1 values an evaluation can return
Scores == {0, 400, 900}

\* the 'epoch' and 'best_top1' entries save_checkpoint writes after training
\* epoch e
SavedState(e, best) == [epoch |-> e + 1, best_top1 |-> best]

\* for epoch in range(start_epoch, args.epochs)           (softmax_loss)
\* for epoch in range(start_epoch + 1, args.epochs + 1)   (triplet_loss)
FirstEpoch(s, start) == IF s = "softmax_loss" THEN start ELSE start + 1
LastEpoch(s, n) == IF s = "softmax_loss" THEN n - 1 ELSE n

\* the epochs of a script's numbering after which a checkpoint can be written
ScriptEpochs(s) == FirstEpoch(s, 0)..LastEpoch(s, MaxEpochs)

\* the positional arguments of the three kinds of Evaluator.evaluate call
ValidationArgs == <<"val_loader", "dataset.val", "dataset.val">>
EvaluateOnlyValArgs == <<"val_loader", "dataset.val", "dataset.val", "DistanceMetric">>
TestArgs == <<"test_loader", "dataset.query", "dataset.gallery", "DistanceMetric">>

\* binding of positional arguments to
\* evaluate(self, data_loader, query, gallery, dataset, metric=None, ...)
BindEvaluate(a) ==
    IF Len(a) < 4
    THEN [exc |-> "TypeError", dataset |-> "unbound", metric |-> "unbound"]
    ELSE [exc |-> "none", dataset |-> a[4],
          metric |-> IF Len(a) >= 5 THEN a[5] ELSE "None"]

\* the ways a call of Evaluator.evaluate with these positional arguments can
\* end: a missing argument is a TypeError; a dataset that is not a string
\* fails in the header print or in the lookup of evaluate_all; a name without
\* an entry in cmc_configs is a KeyError; otherwise a top-1 is returned
EvaluateOutcomes(site, a) ==
    LET b == BindEvaluate(a)
        call == [site |-> site, dataset |-> b.dataset, metric |-> b.metric,
                 exc |-> b.exc, ret |-> 0]
    IN IF b.exc # "none" THEN {call}
       ELSE IF b.dataset = "DistanceMetric"
       THEN {[call EXCEPT !.exc = e] : e \in {"TypeError", "KeyError"}}
       ELSE IF ~HasKey(CmcConfigs(b.dataset), b.dataset)
       THEN {[call EXCEPT !.exc = "KeyError"]}
       ELSE {[call EXCEPT !.ret = t] : t \in Scores}

\* main up to the choice between evaluation only and training: arguments,
\* --resume
Main ==
    /\ pc = "idle" /\ main_pc = "none"
    /\ \E s \in Scripts, ev \in BOOLEAN, n \in 0..MaxEpochs, ss \in 0..MaxEpochs,
          d \in ScriptDatasets, rs \in BOOLEAN :
         /\ script' = s
         /\ args' = [evaluate |-> ev, resume |-> rs, epochs |-> n, start_save |-> ss,
                     dataset |-> d]
         /\ \E e \in (IF rs THEN ScriptEpochs(s) ELSE {-1}),
               b \in (IF rs THEN Scores ELSE {0}) :
              \E ck \in {IF rs THEN SavedState(e, b) ELSE NoCheckpoint} :
                 /\ resumed_after' = e
                 /\ checkpoint' = ck
                 /\ start_epoch' = (IF rs THEN ck.epoch ELSE 0)
                 /\ best_top1' = (IF rs THEN ck.best_top1 ELSE 0)
                 /\ epoch' = FirstEpoch(s, IF rs THEN ck.epoch ELSE 0)
         /\ main_pc' = IF ev THEN "evaluate_only" ELSE "loop"
    /\ pc' = "script"
    /\ UNCHANGED <<caller, log, exc, evalVars, argVars, localVars, allVars,
                   trained, saved, calls, loaded>>

\* if args.evaluate: the validation call, the test call, return
EvaluateOnly ==
    /\ main_pc = "evaluate_only"
    /\ \E r1 \in EvaluateOutcomes("evaluate_only", EvaluateOnlyValArgs) :
         IF r1.exc # "none"
         THEN calls' = Append(calls, r1) /\ main_pc' = "raised"
         ELSE \E r2 \in EvaluateOutcomes("evaluate_only", TestArgs) :
                 /\ calls' = calls \o <<r1, r2>>
                 /\ main_pc' = IF r2.exc # "none" THEN "raised" ELSE "done"
    /\ UNCHANGED <<pc, caller, log, exc, evalVars, argVars, localVars, allVars,
                   script, args, checkpoint, resumed_after, start_epoch, best_top1,
                   epoch, trained, saved, loaded>>

\* one iteration of the training loop: train, skip before start_save, validate,
\* is_best, best_top1, save_checkpoint
Epoch ==
    /\ main_pc = "loop"
    /\ epoch <= LastEpoch(script, args.epochs)
    /\ trained' = Append(trained, epoch)
    /\ IF epoch < args.start_save
       THEN /\ epoch' = epoch + 1
            /\ UNCHANGED <<best_top1, saved, calls, main_pc>>
       ELSE \E r \in EvaluateOutcomes("validation", ValidationArgs) :
               /\ calls' = Append(calls, r)
               /\ IF r.exc # "none"
                  THEN /\ main_pc' = "raised"
                       /\ UNCHANGED <<epoch, best_top1, saved>>
                  ELSE /\ best_top1' = Max2(r.ret, best_top1)
                       /\ saved' = Append(saved,
                             [state |-> SavedState(epoch, Max2(r.ret, best_top1)),
                              is_best |-> (r.ret > best_top1),
                              top1 |-> r.ret, before |-> best_top1])
                       /\ epoch' = epoch + 1
                       /\ UNCHANGED main_pc
    /\ UNCHANGED <<pc, caller, log, exc, evalVars, argVars, localVars, allVars,
                   script, args, checkpoint, resumed_after, start_epoch, loaded>>

\* after the loop: load model_best.pth.tar and evaluate on the test set
FinalTest ==
    /\ main_pc = "loop"
    /\ epoch > LastEpoch(script, args.epochs)
    /\ loaded' = "model_best.pth.tar"
    /\ \E r \in EvaluateOutcomes("final_test", TestArgs) :
         /\ calls' = Append(calls, r)
         /\ main_pc' = IF r.exc # "none" THEN "raised" ELSE "done"
    /\ UNCHANGED <<pc, caller, log, exc, evalVars, argVars, localVars, allVars,
                   script, args, checkpoint, resumed_after, start_epoch, best_top1,
                   epoch, trained, saved>>

Next ==
    \/ KReRankingCall \/ KReRanking \/ Evaluate \/ EvaluateDistance \/ EvaluateAll
    \/ Main \/ EvaluateOnly \/ Epoch \/ FinalTest

Spec == Init /\ [][Next]_vars

\* ------------------------------------------------------- properties
\* k_re_ranking, called directly, has run to its end
KReRankingEnded == caller = "direct" /\ pc \in {"returned", "raised"}
\* evaluate_all has run to its end
EvaluateAllEnded ==
    caller = "evaluate" /\ pc \in {"returned", "raised"} /\ exc # "TypeError"
\* pairwise_distance has returned a matrix to evaluate
PairwiseReturned == caller = "evaluate" /\ log # <<>>

\* rows 1..m, columns m+1..A of a square matrix
QueryGalleryBlock(M, m) ==
    [i \in 1..m |-> [j \in 1..(Len(M) - m) |-> M[i][m + j]]]

\* C1: k_re_ranking returns only the query x gallery block of the fused
\* distance, m rows by A-m columns for the number m of query rows among the A
\* rows of feat, not the full A x A matrix.
C1_ReturnsQueryGalleryBlock ==
    (KReRankingEnded /\ pc = "returned") =>
        \E m \in 0..Len(feat) :
            /\ Shape(krr_ret) = <<m, Len(feat) - m>>
            /\ krr_ret = QueryGalleryBlock(final_dist, m)

\* C2: the matrix Evaluator.evaluate hands to evaluate_all has one row per
\* query item and one column per gallery item, in list order, with and
\* without re-ranking.
C2_HandedMatrixIsQueryByGallery ==
    (pc = "evaluate_all" /\ ~query.none /\ ~gallery.none) =>
        /\ Rows(ea_distmat) = Len(query.items)
        /\ \A i \in 1..Rows(ea_distmat) : Len(ea_distmat[i]) = Len(gallery.items)
        /\ ~re_ranking => ea_distmat = distmat

\* the two collections pairwise_distance compares
LeftFeatures ==
    Transformed(IF query.none THEN DictValues(features) ELSE FeaturesOf(features, query), metric)
RightFeatures ==
    Transformed(IF gallery.none THEN DictValues(features) ELSE FeaturesOf(features, gallery), metric)

\* C3: in Euclidean mode pairwise_distance returns
\* D[i][j] = ||x_i||^2 + ||y_j||^2 - 2 (x_i . y_j), in the two-collection call
\* and in the self-distance call (y = x).
C3_SquaredEuclidean ==
    (PairwiseReturned /\ metric \in {"None", "euclidean"}) =>
        /\ Rows(distmat) = Len(LeftFeatures)
        /\ \A i \in 1..Len(LeftFeatures) :
             /\ Len(distmat[i]) = Len(RightFeatures)
             /\ \A j \in 1..Len(RightFeatures) :
                  distmat[i][j] = SqNorm(LeftFeatures[i]) + SqNorm(RightFeatures[j])
                                  - 2 * Dot(LeftFeatures[i], RightFeatures[j])

\* C4: the all-pairs Euclidean matrix of pairwise_distance is symmetric.
C4_SelfDistanceSymmetric ==
    (PairwiseReturned /\ query.none /\ gallery.none /\ metric \in {"None", "euclidean"}) =>
        \A i \in 1..Rows(distmat) : \A j \in 1..Rows(distmat) : distmat[i][j] = distmat[j][i]

\* C5: k_re_ranking with k1 <= 0, k2 <= 0 or lambda_value outside [0,1] fails
\* with a configuration error before any distance, ranking or weighted-neighbor
\* computation, and returns no matrix.
C5_BadConfigFailsFast ==
    (KReRankingEnded /\ (k1 <= 0 \/ k2 <= 0 \/ lambda_value < 0 \/ lambda_value > SCALE)) =>
        /\ pc = "raised"
        /\ exc = "ConfigurationError"
        /\ log = <<>>
        /\ krr_ret = <<>>

\* C6: evaluate_all with a dataset name other than 'market1501' and 'dukemtmc'
\* fails before the mean-AP computation and before any CMC computation.
C6_UnknownProtocolFailsFast ==
    (EvaluateAllEnded /\ dataset \notin {"market1501", "dukemtmc"}) =>
        /\ pc = "raised"
        /\ \A p \in 1..Len(log) : log[p] \notin {"mean_ap", "cmc"}

\* the flag combination the claim gives for a protocol
ProtocolFlags(name) ==
    IF name = "market1501" THEN Flags(FALSE, FALSE, TRUE) ELSE Flags(FALSE, TRUE, FALSE)

\* C7: for 'market1501' and 'dukemtmc' evaluate_all returns entry 0 of the CMC
\* sequence computed under that protocol's own flags, not the 'allshots'
\* sequence nor the other protocol's, and prints for each cutoff k entry k-1 of
\* that same sequence.
C7_Top1OfOwnProtocol ==
    (EvaluateAllEnded /\ exc # "AssertionError" /\ dataset \in {"market1501", "dukemtmc"}) =>
        \E world \in Worlds :
          LET allshots == Cmc(ea_distmat, world, Flags(FALSE, FALSE, FALSE))
              own == Cmc(ea_distmat, world, ProtocolFlags(dataset))
              other == Cmc(ea_distmat, world,
                           ProtocolFlags(IF dataset = "market1501" THEN "dukemtmc"
                                         ELSE "market1501"))
          IN /\ pc = "returned"
             /\ DictGet(cmc_scores, "allshots") = allshots
             /\ ret = own[1]
             /\ ret # allshots[1] /\ ret # other[1]
             /\ printed = [p \in 1..Len(CmcTopk) |-> <<CmcTopk[p], own[CmcTopk[p]]>>]

C7_Witness ==
    /\ EvaluateAllEnded /\ pc = "returned" /\ dataset = "dukemtmc"
    /\ Len(printed) = Len(CmcTopk) /\ ret = printed[1][2] /\ ret > 0

\* a configuration the specification accepts
ValidConfig == k1 >= 1 /\ k2 >= 1 /\ lambda_value \in 0..SCALE

\* the sum of a row of V is 1, up to one unit of rounding per entry
RowSumsToOne(row) ==
    /\ \A c \in 1..Len(row) : ~IsNaN(row[c])
    /\ FSum(row) \in (SCALE - Len(row))..SCALE

\* C8: after the k-reciprocal loop every row of V whose expansion set is
\* non-empty sums to 1 and every row whose expansion set is empty is all zero,
\* for every input, rows of the distance matrix with maximum 0 included
\* (stated here for the valid configurations only).
C8_RowsSumToOne ==
    (KReRankingEnded /\ pc = "returned" /\ ValidConfig) =>
        \A i \in 1..Len(V_loop) :
            IF ExpansionIndex(initial_rank, i, k1) # <<>>
            THEN RowSumsToOne(V_loop[i])
            ELSE \A c \in 1..Len(V_loop[i]) : V_loop[i][c] = 0

\* C9: with k2 = 1 the local query expansion leaves V unchanged: the V used for
\* the inverted index and the Jaccard distance is the V of the expansion loop.
C9_K2OneIsIdentity ==
    (KReRankingEnded /\ pc = "returned" /\ k2 = 1) => V = V_loop

C9_Witness ==
    /\ KReRankingEnded /\ pc = "returned" /\ k2 = 1
    /\ \E i \in 1..Len(V) : \E c \in 1..Len(V[i]) : V[i][c] > 0 /\ V[i][c] < SCALE

\* C10: with lambda_value in [0,1] and every Jaccard term in [0,1], every entry
\* of final_dist lies in [0, 1 + eps] (eps = 0.01; stated here for the valid
\* configurations only).
C10_FinalDistBounded ==
    (/\ KReRankingEnded /\ pc = "returned"
     /\ ValidConfig
     /\ \A i \in 1..Len(jaccard_dist) : \A j \in 1..Len(jaccard_dist[i]) :
            jaccard_dist[i][j] \in 0..SCALE) =>
        \A i \in 1..Len(final_dist) : \A j \in 1..Len(final_dist[i]) :
            final_dist[i][j] \in 0..(SCALE + SCALE \div 100)

\* the neighbours j among the first k+1 entries of rank[i] that have i among
\* the first k+1 entries of rank[j]
MutualNeighbours(rank, i, k) ==
    { j \in Range(Slice(rank[i], k + 1)) : i \in Range(Slice(rank[j], k + 1)) }

\* C11: for every row i the base k-reciprocal set computed by the expansion
\* loop is exactly the set of mutual neighbours of i at radius k1: the j among
\* the first k1+1 entries of rank[i] with i among the first k1+1 entries of
\* rank[j].
C11_BaseSetIsMutual ==
    (initial_rank # <<>> /\ ValidConfig) =>
        \A i \in 1..Len(initial_rank) :
            Range(KReciprocalIndex(initial_rank, i, k1))
                = MutualNeighbours(initial_rank, i, k1)

\* C12: for k1 >= 1 the reciprocal set of every candidate c of a base set is
\* computed by the same reciprocal test at the halved radius round(k1/2), the
\* neighbour lists being cut to their first round(k1/2)+1 ranked entries.
C12_CandidateHalvedRadius ==
    (initial_rank # <<>> /\ ValidConfig) =>
        \A i \in 1..Len(initial_rank) :
            \A c \in Range(KReciprocalIndex(initial_rank, i, k1)) :
                CandidateReciprocalIndex(initial_rank, c, k1)
                    = ReciprocalIndex(initial_rank, c, PyRoundHalf(k1) + 1)

\* the columns where a row is nonzero
NonZeroColumns(row) == {c \in 1..Len(row) : row[c] # 0}

\* C13: after the expansion loop the nonzero columns of row i of V are R(i)
\* together with every R(c), c in R(i), that has 3*|R(c) /\ R(i)| > 2*|R(c)|
\* (strictly, the intersection taken with the base set), and no other column;
\* in particular they contain R(i).
C13_ExpansionColumns ==
    (V_loop # <<>> /\ ValidConfig) =>
        \A i \in 1..Len(V_loop) :
            LET R == Range(KReciprocalIndex(initial_rank, i, k1))
                accepted == { c \in R :
                    LET Rc == Range(CandidateReciprocalIndex(initial_rank, c, k1))
                    IN 3 * Cardinality(Rc \cap R) > 2 * Cardinality(Rc) }
            IN /\ NonZeroColumns(V_loop[i]) =
                    R \cup UNION { Range(CandidateReciprocalIndex(initial_rank, c, k1)) :
                                    c \in accepted }
               /\ R \subseteq NonZeroColumns(V_loop[i])

\* the sum over all columns j of min(V[i][j], V[r][j])
DirectMinSum(W, i, r) == FSum([j \in 1..Len(W[i]) |-> FMin(W[i][j], W[r][j])])

\* C14: for every pair of rows (i, r) the value temp_min[r] accumulated
\* through the inverted index is the sum over all columns j of
\* min(V[i][j], V[r][j]), jaccard_dist[i][r] is 1 - temp_min[r]/(2 - temp_min[r]),
\* and rows with no common nonzero column are at Jaccard distance 1.
C14_TempMinIsDirectSum ==
    (jaccard_dist # <<>> /\ ValidConfig) =>
        \A i \in 1..Len(V) :
            \E tm \in {TempMin(V, InvIndex(V, Len(V)), i, IndNonZero(V, i),
                               [r \in 1..Len(V) |-> 0])} :
                \A r \in 1..Len(V) :
                    /\ tm[r] = DirectMinSum(V, i, r)
                    /\ jaccard_dist[i][r] =
                           FSub(SCALE, FDiv(tm[r], FSub(2 * SCALE, tm[r])))
                    /\ (NonZeroColumns(V[i]) \cap NonZeroColumns(V[r]) = {}
                            => jaccard_dist[i][r] = SCALE)

\* best_top1 before the first epoch of a run
InitialBest == IF args.resume THEN checkpoint.best_top1 ELSE 0

\* the top-1 scores the validation calls of the loop have returned
ReturnedTop1 ==
    { calls[p].ret : p \in { q \in 1..Len(calls) :
                               calls[q].site = "validation" /\ calls[q].exc = "none" } }

C16_ResumeTrainsNextEpoch ==
    (args.resume /\ trained # <<>>) => trained[1] = resumed_after + 1

\* C17: every Evaluator.evaluate call of the two scripts binds dataset to a
\* name that evaluate_all can look up, binds the DistanceMetric object to
\* metric, and returns a top-1 instead of raising.
C17_EvaluateCallsWellFormed ==
    \A p \in 1..Len(calls) :
        /\ calls[p].exc = "none"
        /\ calls[p].metric = "DistanceMetric"
        /\ HasKey(CmcConfigs(calls[p].dataset), calls[p].dataset)

\* C18: when the loop has ended and model_best.pth.tar is loaded for the
\* final test, some save_checkpoint call of the run had is_best = True.
C18_BestModelWasSaved ==
    loaded = "model_best.pth.tar" =>
        \E p \in 1..Len(saved) : saved[p].is_best

====
